---- MODULE Spec2Model ----
(***************************************************************************)
(* vesc-comm: the packet codec (write_packet, read_packet, crc) and the    *)
(* command layer (get_fw_version, get_values, Fault::from_u8) of           *)
(* src/src/lib.rs, as a state machine over a byte transport.               *)
(*                                                                         *)
(* One call runs at a time (the library is single threaded).  Every        *)
(* single-byte transport attempt is one step: it is accepted, reports      *)
(* "not ready" (nb::Error::WouldBlock, retried by block!), or reports a    *)
(* hard error (nb::Error::Other).                                          *)
(***************************************************************************)
EXTENDS Naturals, Sequences, FiniteSets, TLC

VARIABLES
    todo,            \* the calls the caller still makes, in order
    op,              \* the public operation in progress
    arg,             \* the payload handed to write_packet by this call
    pc,              \* position of the running call
    wq,              \* write_packet: frame bytes not yet handed to the writer
    sent,            \* bytes the writer accepted during this call
    rejected,        \* single-byte writes of this call that failed hard
    rx,              \* bytes the reader will supply, oldest first
    got,             \* bytes this call took from the reader
    payload,         \* read_packet: the Vec<u8, U128> being filled
    payload_len,     \* read_packet: the declared length
    calculated_hash, \* read_packet: crc(&payload)
    read_hash,       \* read_packet: the two checksum bytes read
    rres,            \* what read_packet returned inside this call
    ret,             \* what the operation returned
    loopback,        \* the writer feeds the reader (an in-memory byte queue)
    stalls,          \* "not ready" answers the transport still gives
    faults,          \* hard errors the transport still gives
    noise,           \* corruptions the line still applies to queued bytes
    wlog,            \* payloads of the completed write_packet calls
    rcount,          \* completed top-level read_packet calls
    dirty,           \* what went wrong on the line so far, << >> if nothing
    prev             \* the call before: what it returned, what it left unread

vars == << todo, op, arg, pc, wq, sent, rejected, rx, got, payload, payload_len,
           calculated_hash, read_hash, rres, ret, loopback, stalls, faults,
           noise, wlog, rcount, dirty, prev >>

----------------------------------------------------------------------------
(* Bounds of the model *)

\* longest payload of the patterned round trips
MaxLen == 129
\* short payloads are all byte strings over PayloadBytes up to this length
MaxShortLen == 2
\* longest device response of the response sweep
MaxRespLen == 59
\* "not ready" answers a slow transport gives in one scenario
MaxStalls == 1
\* hard errors a faulty transport gives in one scenario
MaxFaults == 1
\* the line corrupts only queues of at most this many bytes
MaxNoisyLen == 14

----------------------------------------------------------------------------
(* Program constants *)

\* start byte of a short packet (one length byte)
StartShort == 2
\* start byte of a long packet (two length bytes)
StartLong == 3
\* stop byte
StopByte == 3
\* capacity of heapless::Vec<u8, U128>
Capacity == 128

Byte == 0 .. 255

----------------------------------------------------------------------------
(* Integer helpers: fixed-width bit operations *)

RECURSIVE Pow2(_)
Pow2(n) == IF n = 0 THEN 1 ELSE 2 * Pow2(n - 1)

\* x with bit k inverted
FlipBitOf(x, k) ==
    IF (x \div Pow2(k)) % 2 = 1 THEN x - Pow2(k) ELSE x + Pow2(k)

----------------------------------------------------------------------------
(* crc: CRC-16/XMODEM of the payload, as two big-endian bytes *)

\* x with the bit of weight w inverted
Toggle(x, w) == IF (x \div w) % 2 = 1 THEN x - w ELSE x + w

\* s XOR 0x1021 (bits 12, 5 and 0)
XorPoly(s) == Toggle(Toggle(Toggle(s, 1), 32), 4096)

\* one step of the 16-bit register: the message bit enters at the top
CrcBit(c, bit) ==
    IF (c >= 32768) # (bit = 1)
    THEN XorPoly((2 * c) % 65536)
    ELSE (2 * c) % 65536

\* the register after the bits of byte b from weight w down, high bit first
\* (a function, so that the register is a value before the next bit enters)
CrcBits[c \in 0 .. 65535, b \in Byte, w \in 0 .. 128] ==
    IF w = 0 THEN c ELSE CrcBits[CrcBit(c, (b \div w) % 2), b, w \div 2]

\* the register after one more input byte
CrcByte(c, b) == CrcBits[c, b, 128]

\* the register after bytes lo .. hi of p, in order (split in halves; the
\* first half's register is a value before the second half starts)
CrcRange(c, p, lo, hi) ==
    LET reg[a \in 0 .. 65535, i \in 1 .. Len(p) + 1, j \in 0 .. Len(p)] ==
            IF i > j THEN a
            ELSE IF i = j THEN CrcByte(a, p[i])
            ELSE reg[reg[a, i, (i + j) \div 2], (i + j) \div 2 + 1, j]
    IN  reg[c, lo, hi]

\* crc16::State::<crc16::XMODEM>::calculate: initial value 0
Crc16(p) == CrcRange(0, p, 1, Len(p))

\* BigEndian::write_u16
write_u16(v) == << v \div 256, v % 256 >>

read_u16_le(b) == b[2] * 256 + b[1]

\* BigEndian::read_u16
read_u16(b) == b[1] * 256 + b[2]

\* BigEndian::read_u32; the u32 is kept as its two 16-bit halves (TLC's
\* integers are 32-bit signed)
read_u32(b) == [hi |-> b[1] * 256 + b[2], lo |-> b[3] * 256 + b[4]]

\* BigEndian::write_u32
write_u32(v) ==
    << v \div 16777216, (v \div 65536) % 256, (v \div 256) % 256, v % 256 >>

crc(p) == write_u16(Crc16(p))

----------------------------------------------------------------------------
(* Results *)

None == [tag |-> "None"]
Ok(v) == [tag |-> "Ok", val |-> v]
Err(e) == [tag |-> "Err", err |-> e]

IoError == Err("IoError")
ChecksumError == Err("ChecksumError")
ParseError == Err("ParseError")

----------------------------------------------------------------------------
(* Command::value: the opcodes the library sends *)

FwVersionOp == 0
GetValuesOp == 4
SetCurrentOp == 6

----------------------------------------------------------------------------
(* write_packet: the bytes it hands to the writer, in order *)

LenByte_with_crc(p) == (Len(p) + 2) % 256

\* payload.len() as u8
LenByte(p) == Len(p) % 256

write_packet_bad_order(p) ==
    << StartShort, LenByte(p) >> \o crc(p) \o p \o << StopByte >>

write_packet_bytes(p) ==
    << StartShort, LenByte(p) >> \o p \o crc(p) \o << StopByte >>

----------------------------------------------------------------------------
(* The device's side of the wire: frames it may send *)

ShortFrame(p) == << StartShort, Len(p) >> \o p \o crc(p) \o << StopByte >>

LongFrame(p) ==
    << StartLong, Len(p) \div 256, Len(p) % 256 >> \o p \o crc(p) \o << StopByte >>

\* s with its last element replaced by b
WithLast(s, b) == [s EXCEPT ![Len(s)] = b]

\* s without its last element
DropLast(s) == SubSeq(s, 1, Len(s) - 1)

----------------------------------------------------------------------------
(* Decoding of the two responses *)

\* an index out of range, a failed unwrap or an arithmetic underflow: the
\* process aborts, nothing is returned
Panic == [tag |-> "Panic"]

\* Fault::from_u8
from_u8(n) ==
    CASE n = 0 -> Ok("None")
      [] n = 1 -> Ok("OverVoltage")
      [] n = 2 -> Ok("UnderVoltage")
      [] n = 3 -> Ok("Drv")
      [] n = 4 -> Ok("AbsOverCurrent")
      [] n = 5 -> Ok("OverTempFet")
      [] n = 6 -> Ok("OverTempMotor")
      [] OTHER -> ParseError

\* &payload[a..b] of the source (0-based, b exclusive)
Slice(p, a, b) == SubSeq(p, a + 1, b)

\* bits of the u32 x that do not fit a 24-bit significand
RECURSIVE ExcessBits(_)
ExcessBits(h) == IF h < 256 THEN 0 ELSE 1 + ExcessBits(h \div 2)

\* u32 as f32: round to nearest, ties to even, on a 24-bit significand;
\* the f32 is mant * 2^exp
AsF32(x) ==
    LET e == ExcessBits(x.hi)
        u == Pow2(e)
        q == x.hi * Pow2(16 - e) + x.lo \div u
        r == x.lo % u
    IN  [mant |-> IF 2 * r > u \/ (2 * r = u /\ q % 2 = 1) THEN q + 1 ELSE q,
         exp |-> e]

\* f32::from(u16): exact
FromU16(x) == [mant |-> x, exp |-> 0]

\* the f32 quotient x / d, kept as its operands
Quot(x, d) == [num |-> x, den |-> d]

F16(p, a, d) == Quot(FromU16(read_u16(Slice(p, a, a + 2))), d)
F32(p, a, d) == Quot(AsF32(read_u32(Slice(p, a, a + 4))), d)

\* the ends of the slices get_values takes, and the index of the fault byte
ValuesSliceEnds == {3, 5, 9, 13, 17, 21, 23, 27, 29, 33, 37, 41, 45, 49, 53, 58}
FaultIndex == 53

\* the body of get_values after read_packet returned Ok(payload)
get_values_decode(p) ==
    IF Len(p) = 0 THEN Panic
    ELSE IF p[1] # GetValuesOp THEN ParseError
    ELSE IF \E e \in ValuesSliceEnds : e > Len(p) THEN Panic
    ELSE IF from_u8(p[FaultIndex + 1]).tag # "Ok" THEN Panic
    ELSE Ok([temp_fet |-> F16(p, 1, 10),
             temp_motor |-> F16(p, 3, 10),
             motor_current |-> F32(p, 5, 100),
             input_current |-> F32(p, 9, 100),
             id |-> F32(p, 13, 100),
             iq |-> F32(p, 17, 100),
             duty_cycle |-> F16(p, 21, 1000),
             rpm |-> F32(p, 23, 1),
             input_voltage |-> F16(p, 27, 10),
             amp_hours |-> F32(p, 29, 10000),
             amp_hours_charged |-> F32(p, 33, 10000),
             watt_hours |-> F32(p, 37, 10000),
             watt_hours_charged |-> F32(p, 41, 10000),
             tachometer |-> read_u32(Slice(p, 45, 49)),
             tachometer_abs |-> read_u32(Slice(p, 49, 53)),
             fault |-> from_u8(p[FaultIndex + 1]).val,
             pid_pos |-> F32(p, 54, 1000000),
             controller_id |-> 0])

\* sizes of FwVersion.uuid and FwVersion.hw, and the bytes around hw
UuidLen == 12
HwLen == 10
FwFixedLen == 15

get_fw_version_decode_no_echo(p) ==
    IF Len(p) < FwFixedLen \/ Len(p) - FwFixedLen > HwLen THEN Panic
    ELSE Ok([major |-> p[2],
             minor |-> p[3],
             hw |-> [i \in 1 .. HwLen |->
                        IF i <= Len(p) - FwFixedLen THEN p[3 + i] ELSE 0],
             uuid |-> [i \in 1 .. UuidLen |-> p[Len(p) - UuidLen + i]]])

\* the body of get_fw_version after read_packet returned Ok(payload)
get_fw_version_decode(p) ==
    IF Len(p) = 0 THEN Panic
    ELSE IF p[1] # FwVersionOp THEN ParseError
    ELSE IF Len(p) < UuidLen THEN Panic
    ELSE IF Len(p) < FwFixedLen THEN Panic
    ELSE IF Len(p) - FwFixedLen > HwLen THEN Panic
    ELSE Ok([major |-> p[2],
             minor |-> p[3],
             hw |-> [i \in 1 .. HwLen |->
                        IF i <= Len(p) - FwFixedLen THEN p[3 + i] ELSE 0],
             uuid |-> [i \in 1 .. UuidLen |-> p[Len(p) - UuidLen + i]]])

----------------------------------------------------------------------------
(* The caller's scripts and the transports they run on *)

W(p) == [op |-> "write_packet", arg |-> p]
R == [op |-> "read_packet", arg |-> << >>]
Fw == [op |-> "get_fw_version", arg |-> << >>]
Val == [op |-> "get_values", arg |-> << >>]
Sc(v) == [op |-> "set_current", arg |-> v]

\* the values set_current is called with
CurrentValues == {0, 100000}

\* the payload of set_current(v): the opcode, then v as a big-endian u32
set_current_payload(v) == << SetCurrentOp >> \o write_u32(v)

PayloadBytes == {0, 4, 163}

SeqsUpTo(S, n) == UNION {[1 .. k -> S] : k \in 0 .. n}

ShortPayloads == SeqsUpTo(PayloadBytes, MaxShortLen)

Pattern(n) == [i \in 1 .. n |-> (i * 37 + n) % 256]

Patterns == {Pattern(n) : n \in 0 .. MaxLen}

\* the ASCII digits "123456789", the usual CRC check input
CheckString == << 49, 50, 51, 52, 53, 54, 55, 56, 57 >>

\* a device response of n bytes: opcode o, fault byte f, the rest patterned
Resp(n, o, f) ==
    [i \in 1 .. n |-> IF i = 1 THEN o ELSE IF i = 54 THEN f ELSE (i * 37 + n) % 256]

OpBytes == {FwVersionOp, GetValuesOp, 6}

Scn(calls, stream, loop, st, fl, ns) ==
    [calls |-> calls, rx |-> stream, loopback |-> loop,
     stalls |-> st, faults |-> fl, noise |-> ns]

\* write then read over an in-memory queue
RoundTrips ==
    {Scn(<< W(p), R >>, << >>, TRUE, 0, 0, 0) :
        p \in Patterns \cup {CheckString, Pattern(255)}}

\* short payloads over a queue whose bytes the line may corrupt once
NoisyTrips ==
    {Scn(<< W(p), R, R >>, << >>, TRUE, MaxStalls, 0, 1) :
        p \in ShortPayloads \cup {CheckString}}

\* two packets queued, then read back
Pairs ==
    {Scn(<< W(p), W(q), R, R >>, << >>, TRUE, 0, 0, 0) :
        p \in ShortPayloads, q \in SeqsUpTo(PayloadBytes, 1)}

\* two packets of up to 127 bytes queued, then read back
LongPairs ==
    {Scn(<< W(p), W(q), R, R >>, << >>, TRUE, 0, 0, 0) :
        p \in {<< >>, Pattern(127)}, q \in {<< >>, Pattern(126)}}

\* a device that has answered with one well-formed short frame
RespStreams ==
    {ShortFrame(Resp(n, o, 0)) : n \in 0 .. MaxRespLen, o \in OpBytes}

Responses ==
    {Scn(<< c >>, s, FALSE, 0, 0, 0) : c \in {R, Fw, Val}, s \in RespStreams}

\* the firmware-version answer of a 4.x controller: opcode, major 3, minor 40,
\* hardware name "60", nine zero bytes, twelve UUID bytes
FwScenarioPayload ==
    << 0, 3, 40, 54, 48 >> \o [i \in 1 .. 9 |-> 0] \o [i \in 1 .. 12 |-> 160 + i]

FwScenario ==
    {Scn(<< Fw >>, ShortFrame(FwScenarioPayload), FALSE, 0, 0, 0)}

EmptyFrame == ShortFrame(<< >>)

\* set_current on a port that may stall, with and without bytes waiting
SetCurrents ==
    {Scn(<< Sc(v) >>, s, FALSE, MaxStalls, 0, 0) :
        v \in CurrentValues, s \in {<< >>, EmptyFrame}}

\* a telemetry answer: opcode 4, temp_fet bytes 00 64, fault byte 2, the
\* two currents below 2^24, the other fields large
TelemetryPayload ==
    [i \in 1 .. 58 |->
        IF i = 1 THEN GetValuesOp
        ELSE IF i = 2 THEN 0
        ELSE IF i = 3 THEN 100
        ELSE IF i = FaultIndex + 1 THEN 2
        ELSE IF i \in {6, 10} THEN 0
        ELSE (i * 37) % 256]

Telemetry ==
    {Scn(<< Val >>, ShortFrame(TelemetryPayload), FALSE, 0, 0, 0)}

\* two operations one after the other, both answers already waiting
Transactions ==
    {Scn(<< Fw, Val >>,
         ShortFrame(Resp(15, FwVersionOp, 0)) \o ShortFrame(Resp(59, GetValuesOp, 3)),
         FALSE, 0, 0, 0),
     Scn(<< Val, Fw >>,
         ShortFrame(Resp(59, GetValuesOp, 3)) \o ShortFrame(Resp(15, FwVersionOp, 0)),
         FALSE, 0, 0, 0)}

\* get_values answers with every fault byte
FaultSweep ==
    {Scn(<< Val >>, ShortFrame(Resp(58, GetValuesOp, f)), FALSE, 0, 0, 0) : f \in Byte}

\* long-format frames
LongFrames ==
    {Scn(<< R >>, LongFrame(p), FALSE, 0, 0, 0) :
        p \in Patterns \cup ShortPayloads \cup {Pattern(300)}}

\* a port that may stall and fail hard
FaultyStreams ==
    {<< >>, ShortFrame(<< FwVersionOp >>), ShortFrame(<< GetValuesOp >>),
     ShortFrame(Resp(15, FwVersionOp, 0)), DropLast(ShortFrame(<< 4, 163 >>))}

FaultyPort ==
    {Scn(<< c >>, s, FALSE, MaxStalls, MaxFaults, 0) :
        c \in {R, Fw, Val} \cup {W(p) : p \in SeqsUpTo(PayloadBytes, 1)},
        s \in FaultyStreams}

\* streams that are not one well-formed frame
GoodFrames == {ShortFrame(p) : p \in {<< >>, << 0 >>, << 4, 163 >>}}

Garbage ==
    {Scn(<< R, R >>, << b >> \o EmptyFrame, FALSE, 0, 0, 0) :
        b \in Byte \ {StartShort, StartLong}}
    \cup {Scn(<< c >>, WithLast(f, b), FALSE, 0, 0, 0) :
        c \in {R, Fw, Val}, f \in GoodFrames, b \in Byte \ {StopByte}}
    \cup {Scn(<< R, R >>, WithLast(<< 2, 1, 4, 0, 0, 3 >>, b) \o EmptyFrame, FALSE, 0, 0, 0) :
        b \in {StopByte, 0}}
    \cup {Scn(<< R >>, WithLast(LongFrame(<< 4, 163 >>), b), FALSE, 0, 0, 0) :
        b \in {0, 2, 255}}
    \cup {Scn(<< R >>, << StartShort, n >> \o Pattern(n + 3), FALSE, 0, 0, 0) :
        n \in {129, 255}}

Scenarios ==
    RoundTrips \cup NoisyTrips \cup Pairs \cup Responses \cup FaultSweep
    \cup LongFrames \cup FaultyPort \cup Garbage \cup FwScenario
    \cup SetCurrents \cup Telemetry \cup Transactions \cup LongPairs

----------------------------------------------------------------------------
(* Initial state: no call in progress *)

Init ==
    \E s \in Scenarios :
        /\ todo = s.calls
        /\ rx = s.rx
        /\ loopback = s.loopback
        /\ stalls = s.stalls
        /\ faults = s.faults
        /\ noise = s.noise
        /\ op = "none"
        /\ arg = << >>
        /\ pc = "idle"
        /\ wq = << >>
        /\ sent = << >>
        /\ rejected = 0
        /\ got = << >>
        /\ payload = << >>
        /\ payload_len = 0
        /\ calculated_hash = << >>
        /\ read_hash = << >>
        /\ rres = None
        /\ ret = None
        /\ wlog = << >>
        /\ rcount = 0
        /\ dirty = << >>
        /\ prev = [ret |-> None, rest |-> << >>]

----------------------------------------------------------------------------
(* The caller *)

\* the payload write_packet is called with
WriteArg(c) ==
    CASE c.op = "write_packet" -> c.arg
      [] c.op = "get_fw_version" -> << FwVersionOp >>
      [] c.op = "get_values" -> << GetValuesOp >>
      [] c.op = "set_current" -> set_current_payload(c.arg)
      [] OTHER -> << >>

\* the caller makes its next call
Call ==
    /\ pc = "idle"
    /\ todo # << >>
    /\ todo' = Tail(todo)
    /\ op' = Head(todo).op
    /\ arg' = WriteArg(Head(todo))
    /\ pc' = IF Head(todo).op = "read_packet" THEN "r_start" ELSE "write"
    /\ wq' = IF Head(todo).op = "read_packet" THEN << >>
             ELSE write_packet_bytes(WriteArg(Head(todo)))
    /\ UNCHANGED << sent, rejected, rx, got, payload, payload_len,
                    calculated_hash, read_hash, rres, ret, loopback, stalls,
                    faults, noise, wlog, rcount, dirty >>
    /\ UNCHANGED prev

Return_keeps_payload ==
    /\ pc = "done"
    /\ pc' = "idle"
    /\ op' = "none"
    /\ arg' = << >>
    /\ wq' = << >>
    /\ sent' = << >>
    /\ rejected' = 0
    /\ got' = << >>
    /\ payload_len' = 0
    /\ calculated_hash' = << >>
    /\ read_hash' = << >>
    /\ rres' = None
    /\ ret' = None
    /\ prev' = [ret |-> ret, rest |-> rx]
    /\ UNCHANGED << todo, rx, loopback, stalls, faults, noise, wlog, rcount,
                    dirty, payload >>

\* the call has returned; its locals are gone
Return ==
    /\ pc = "done"
    /\ pc' = "idle"
    /\ op' = "none"
    /\ arg' = << >>
    /\ wq' = << >>
    /\ sent' = << >>
    /\ rejected' = 0
    /\ got' = << >>
    /\ payload' = << >>
    /\ payload_len' = 0
    /\ calculated_hash' = << >>
    /\ read_hash' = << >>
    /\ rres' = None
    /\ ret' = None
    /\ prev' = [ret |-> ret, rest |-> rx]
    /\ UNCHANGED << todo, rx, loopback, stalls, faults, noise, wlog, rcount, dirty >>

----------------------------------------------------------------------------
(* write_packet *)

\* block!(w.write(b)): the writer takes the byte
WriteAccept ==
    /\ pc = "write"
    /\ wq # << >>
    /\ sent' = Append(sent, Head(wq))
    /\ rx' = IF loopback THEN Append(rx, Head(wq)) ELSE rx
    /\ wq' = Tail(wq)
    /\ UNCHANGED << todo, op, arg, pc, rejected, got, payload, payload_len,
                    calculated_hash, read_hash, rres, ret, loopback, stalls,
                    faults, noise, wlog, rcount, dirty >>
    /\ UNCHANGED prev

WriteStall_skips_byte ==
    /\ pc = "write"
    /\ wq # << >>
    /\ stalls > 0
    /\ stalls' = stalls - 1
    /\ wq' = Tail(wq)
    /\ UNCHANGED << todo, op, arg, pc, sent, rejected, rx, got, payload,
                    payload_len, calculated_hash, read_hash, rres, ret,
                    loopback, faults, noise, wlog, rcount, dirty >>
    /\ UNCHANGED prev

\* the writer reports WouldBlock: block! tries the same byte again
WriteStall ==
    /\ pc = "write"
    /\ wq # << >>
    /\ stalls > 0
    /\ stalls' = stalls - 1
    /\ UNCHANGED << todo, op, arg, pc, wq, sent, rejected, rx, got, payload,
                    payload_len, calculated_hash, read_hash, rres, ret,
                    loopback, faults, noise, wlog, rcount, dirty >>
    /\ UNCHANGED prev

\* the writer reports a hard error: .ok() drops it and write_packet goes on
WriteFail ==
    /\ pc = "write"
    /\ wq # << >>
    /\ faults > 0
    /\ faults' = faults - 1
    /\ rejected' = rejected + 1
    /\ dirty' = << "reject" >>
    /\ wq' = Tail(wq)
    /\ UNCHANGED << todo, op, arg, pc, sent, rx, got, payload, payload_len,
                    calculated_hash, read_hash, rres, ret, loopback, stalls,
                    noise, wlog, rcount >>
    /\ UNCHANGED prev

WriteReturn_before_stop ==
    /\ pc = "write"
    /\ Len(wq) <= 1
    /\ op # "set_current"
    /\ IF op = "write_packet"
       THEN /\ pc' = "done"
            /\ ret' = Ok(<< >>)
            /\ wlog' = Append(wlog, arg)
       ELSE /\ pc' = "r_start"
            /\ UNCHANGED << ret, wlog >>
    /\ UNCHANGED << todo, op, arg, wq, sent, rejected, rx, got, payload,
                    payload_len, calculated_hash, read_hash, rres, loopback,
                    stalls, faults, noise, wlog, rcount, dirty >>
    /\ UNCHANGED prev

\* every byte was handed over: write_packet returns Ok(())
WriteReturn ==
    /\ pc = "write"
    /\ wq = << >>
    /\ op # "set_current"
    /\ IF op = "write_packet"
       THEN /\ pc' = "done"
            /\ ret' = Ok(<< >>)
            /\ wlog' = Append(wlog, arg)
       ELSE /\ pc' = "r_start"
            /\ UNCHANGED << ret, wlog >>
    /\ UNCHANGED << todo, op, arg, wq, sent, rejected, rx, got, payload,
                    payload_len, calculated_hash, read_hash, rres, loopback,
                    stalls, faults, noise, rcount, dirty >>
    /\ UNCHANGED prev

\* set_current: the frame is written and the call returns, no answer is read
SetCurrentReturn ==
    /\ pc = "write"
    /\ wq = << >>
    /\ op = "set_current"
    /\ pc' = "done"
    /\ ret' = Ok(<< >>)
    /\ UNCHANGED << todo, op, arg, wq, sent, rejected, rx, got, payload,
                    payload_len, calculated_hash, read_hash, rres, loopback,
                    stalls, faults, noise, wlog, rcount, dirty >>
    /\ UNCHANGED prev

----------------------------------------------------------------------------
(* read_packet *)

ReadPcs ==
    {"r_start", "r_len", "r_len_hi", "r_len_lo", "r_payload",
     "r_hash_hi", "r_hash_lo", "r_stop"}

\* block!(r.read()): the reader supplies its oldest byte
Take ==
    /\ rx # << >>
    /\ rx' = Tail(rx)
    /\ got' = Append(got, Head(rx))

StartKind_no_long(b) == IF b = StartShort THEN "r_len" ELSE "error"

StartKind_default_short(b) == IF b = StartLong THEN "r_len_hi" ELSE "r_len"

\* what the first byte selects
StartKind(b) ==
    CASE b = StartShort -> "r_len"
      [] b = StartLong -> "r_len_hi"
      [] OTHER -> "error"

StopOk_any_marker(b) == b \in {StartShort, StopByte}

\* the stop-byte test
StopOk(b) == b = StopByte

HashOk_ignored(calculated, read) == calculated = calculated

HashOk_first_byte(calculated, read) == calculated[1] = read[1]

\* the checksum test
HashOk(calculated, read) == calculated = read

PushOk_U64(v) == Len(v) < 64

\* Vec::push succeeds while the vector is below its capacity
PushOk(v) == Len(v) < Capacity

\* where read_packet goes once the length is known
AfterLen(n) == IF n = 0 THEN "r_hash_hi" ELSE "r_payload"

\* read_packet returns res to get_fw_version / get_values (which pass an
\* error on with ?) or to the caller
Finish(res) ==
    /\ rres' = res
    /\ IF op = "read_packet"
       THEN /\ pc' = "done"
            /\ ret' = res
            /\ rcount' = rcount + 1
       ELSE /\ pc' = IF res.tag = "Ok" THEN "decode" ELSE "done"
            /\ ret' = IF res.tag = "Ok" THEN ret ELSE res
            /\ UNCHANGED rcount

ReadStart ==
    /\ pc = "r_start"
    /\ Take
    /\ IF StartKind(Head(rx)) = "error"
       THEN Finish(IoError)
       ELSE /\ pc' = StartKind(Head(rx))
            /\ UNCHANGED << rres, ret, rcount >>
    /\ UNCHANGED << todo, op, arg, wq, sent, rejected, payload, payload_len,
                    calculated_hash, read_hash, loopback, stalls, faults,
                    noise, wlog, dirty >>
    /\ UNCHANGED prev

\* short packet: one length byte
ReadLen ==
    /\ pc = "r_len"
    /\ Take
    /\ payload_len' = Head(rx)
    /\ pc' = AfterLen(Head(rx))
    /\ calculated_hash' = IF Head(rx) = 0 THEN crc(payload) ELSE calculated_hash
    /\ UNCHANGED << todo, op, arg, wq, sent, rejected, payload, read_hash,
                    rres, ret, loopback, stalls, faults, noise, wlog, rcount,
                    dirty >>
    /\ UNCHANGED prev

\* long packet: buf[0]
ReadLenHi ==
    /\ pc = "r_len_hi"
    /\ Take
    /\ payload_len' = Head(rx)
    /\ pc' = "r_len_lo"
    /\ UNCHANGED << todo, op, arg, wq, sent, rejected, payload,
                    calculated_hash, read_hash, rres, ret, loopback, stalls,
                    faults, noise, wlog, rcount, dirty >>
    /\ UNCHANGED prev

\* long packet: buf[1], then BigEndian::read_u16(&buf)
ReadLenLo ==
    /\ pc = "r_len_lo"
    /\ Take
    /\ payload_len' = read_u16(<< payload_len, Head(rx) >>)
    /\ pc' = AfterLen(read_u16(<< payload_len, Head(rx) >>))
    /\ calculated_hash' = IF read_u16(<< payload_len, Head(rx) >>) = 0
                          THEN crc(payload) ELSE calculated_hash
    /\ UNCHANGED << todo, op, arg, wq, sent, rejected, payload, read_hash,
                    rres, ret, loopback, stalls, faults, noise, wlog, rcount,
                    dirty >>
    /\ UNCHANGED prev

\* payload.push(block!(r.read()).ok().unwrap()).unwrap()
ReadPayload ==
    /\ pc = "r_payload"
    /\ Take
    /\ IF PushOk(payload)
       THEN /\ payload' = Append(payload, Head(rx))
            /\ pc' = IF Len(payload) + 1 = payload_len THEN "r_hash_hi" ELSE "r_payload"
            /\ calculated_hash' = IF Len(payload) + 1 = payload_len
                                  THEN crc(Append(payload, Head(rx)))
                                  ELSE calculated_hash
       ELSE /\ pc' = "panic"
            /\ UNCHANGED << payload, calculated_hash >>
    /\ UNCHANGED << todo, op, arg, wq, sent, rejected, payload_len, read_hash,
                    rres, ret, loopback, stalls, faults, noise, wlog, rcount,
                    dirty >>
    /\ UNCHANGED prev

\* hash[0]
ReadHashHi ==
    /\ pc = "r_hash_hi"
    /\ Take
    /\ read_hash' = << Head(rx) >>
    /\ pc' = "r_hash_lo"
    /\ UNCHANGED << todo, op, arg, wq, sent, rejected, payload, payload_len,
                    calculated_hash, rres, ret, loopback, stalls, faults,
                    noise, wlog, rcount, dirty >>
    /\ UNCHANGED prev

\* hash[1], then the comparison
ReadHashLo ==
    /\ pc = "r_hash_lo"
    /\ Take
    /\ read_hash' = Append(read_hash, Head(rx))
    /\ IF HashOk(calculated_hash, Append(read_hash, Head(rx)))
       THEN /\ pc' = "r_stop"
            /\ UNCHANGED << rres, ret, rcount >>
       ELSE Finish(ChecksumError)
    /\ UNCHANGED << todo, op, arg, wq, sent, rejected, payload, payload_len,
                    calculated_hash, loopback, stalls, faults, noise, wlog,
                    dirty >>
    /\ UNCHANGED prev

\* the stop byte
ReadStop ==
    /\ pc = "r_stop"
    /\ Take
    /\ IF StopOk(Head(rx)) THEN Finish(Ok(payload)) ELSE Finish(ParseError)
    /\ UNCHANGED << todo, op, arg, wq, sent, rejected, payload, payload_len,
                    calculated_hash, read_hash, loopback, stalls, faults,
                    noise, wlog, dirty >>
    /\ UNCHANGED prev

\* the reader reports WouldBlock: block! tries again, nothing is consumed
ReadStall ==
    /\ pc \in ReadPcs
    /\ stalls > 0
    /\ stalls' = stalls - 1
    /\ UNCHANGED << todo, op, arg, pc, wq, sent, rejected, rx, got, payload,
                    payload_len, calculated_hash, read_hash, rres, ret,
                    loopback, faults, noise, wlog, rcount, dirty >>
    /\ UNCHANGED prev

\* the reader reports a hard error: .ok() gives None and unwrap() aborts
ReadFail ==
    /\ pc \in ReadPcs
    /\ faults > 0
    /\ faults' = faults - 1
    /\ pc' = "panic"
    /\ dirty' = << "readfail" >>
    /\ UNCHANGED << todo, op, arg, wq, sent, rejected, rx, got, payload,
                    payload_len, calculated_hash, read_hash, rres, ret,
                    loopback, stalls, noise, wlog, rcount >>
    /\ UNCHANGED prev

----------------------------------------------------------------------------
(* get_fw_version, get_values: after read_packet returned Ok(payload) *)

Decoded ==
    IF op = "get_fw_version" THEN get_fw_version_decode(payload)
    ELSE get_values_decode(payload)

Decode ==
    /\ pc = "decode"
    /\ pc' = IF Decoded.tag = "Panic" THEN "panic" ELSE "done"
    /\ ret' = IF Decoded.tag = "Panic" THEN ret ELSE Decoded
    /\ UNCHANGED << todo, op, arg, wq, sent, rejected, rx, got, payload,
                    payload_len, calculated_hash, read_hash, rres, loopback,
                    stalls, faults, noise, wlog, rcount, dirty >>
    /\ UNCHANGED prev

----------------------------------------------------------------------------
(* The line between two calls *)

\* one bit of one queued byte is inverted
FlipBit ==
    /\ pc = "idle"
    /\ loopback
    /\ noise > 0
    /\ todo # << >>
    /\ rx # << >>
    /\ Len(rx) <= MaxNoisyLen
    /\ \E i \in 1 .. Len(rx), k \in 0 .. 7 :
        /\ rx' = [rx EXCEPT ![i] = FlipBitOf(rx[i], k)]
        /\ dirty' = << "flip", i >>
    /\ noise' = noise - 1
    /\ UNCHANGED << todo, op, arg, pc, wq, sent, rejected, got, payload,
                    payload_len, calculated_hash, read_hash, rres, ret,
                    loopback, stalls, faults, wlog, rcount >>
    /\ UNCHANGED prev

\* the last queued byte is lost
Truncate ==
    /\ pc = "idle"
    /\ loopback
    /\ noise > 0
    /\ todo # << >>
    /\ rx # << >>
    /\ Len(rx) <= MaxNoisyLen
    /\ rx' = DropLast(rx)
    /\ dirty' = << "cut" >>
    /\ noise' = noise - 1
    /\ UNCHANGED << todo, op, arg, pc, wq, sent, rejected, got, payload,
                    payload_len, calculated_hash, read_hash, rres, ret,
                    loopback, stalls, faults, wlog, rcount >>
    /\ UNCHANGED prev

----------------------------------------------------------------------------

Next ==
    \/ Call
    \/ Return
    \/ WriteAccept
    \/ WriteStall
    \/ WriteFail
    \/ WriteReturn
    \/ SetCurrentReturn
    \/ ReadStart
    \/ ReadLen
    \/ ReadLenHi
    \/ ReadLenLo
    \/ ReadPayload
    \/ ReadHashHi
    \/ ReadHashLo
    \/ ReadStop
    \/ ReadStall
    \/ ReadFail
    \/ Decode
    \/ FlipBit
    \/ Truncate

Spec == Init /\ [][Next]_vars

\* the calls and transports on which progress is followed: a queue with
\* line noise, a port that stalls and fails, a long frame
FairScenarios ==
    {Scn(<< W(<< 4 >>), R, R >>, << >>, TRUE, MaxStalls, 0, 1)}
    \cup {Scn(<< c >>, s, FALSE, MaxStalls, MaxFaults, 0) :
            c \in {R, Fw, Val, W(<< 4 >>)},
            s \in {ShortFrame(<< FwVersionOp >>),
                   ShortFrame(Resp(15, FwVersionOp, 0))}}
    \cup {Scn(<< R >>, LongFrame(<< 4, 163 >>), FALSE, 0, 0, 0)}
    \cup {Scn(<< Sc(100000) >>, EmptyFrame, FALSE, MaxStalls, 0, 0)}

FairInit ==
    /\ Init
    /\ Scn(todo, rx, loopback, stalls, faults, noise) \in FairScenarios

\* the thread keeps running; a transport that reports WouldBlock does so
\* finitely often (the stalls budget) before it is ready again
FairSpec == FairInit /\ [][Next]_vars /\ WF_vars(Next)

----------------------------------------------------------------------------
(* Properties *)

\* the call has ended: it returned or the process aborted
Ended == pc \in {"done", "panic"}

\* which queued packet the current top-level read_packet is reading
ReadIndex == IF pc = "done" THEN rcount ELSE rcount + 1

\* nothing went wrong on the queue and the read has a packet of at most
\* 127 bytes to read
CleanRead ==
    /\ loopback
    /\ dirty = << >>
    /\ op = "read_packet"
    /\ ReadIndex <= Len(wlog)
    /\ Len(wlog[ReadIndex]) <= 127

\* C1: round trip.  Over an in-memory queue, read_packet given the bytes
\* write_packet(p) emitted, Len(p) <= 127, returns Ok(p); it never aborts and
\* never waits for a byte that was not written.
C1_RoundTrip ==
    /\ (CleanRead /\ Ended) => (pc = "done" /\ ret = Ok(wlog[ReadIndex]))
    /\ (CleanRead /\ pc \in ReadPcs) => rx # << >>

C1_Witness ==
    /\ CleanRead
    /\ pc = "done"
    /\ Len(wlog[ReadIndex]) = 127
    /\ ret = Ok(Pattern(127))

\* the frame the claim describes: 0x02, n, the payload, CRC high, CRC low, 0x03
ExpectedFrame(p) ==
    << 2, Len(p) >> \o p \o << Crc16(p) \div 256, Crc16(p) % 256 >> \o << 3 >>

\* C2: write_packet(p) whose bytes the writer all accepted has emitted
\* exactly 0x02, Len(p), p, the CRC-16/XMODEM of p high byte first, 0x03:
\* Len(p) + 5 bytes.  The CRC of "123456789" is 0x31C3, of << 4 >> 0x4084.
C2_FrameLayout ==
    (pc = "write" /\ wq = << >> /\ rejected = 0) =>
        /\ sent = ExpectedFrame(arg)
        /\ Len(sent) = Len(arg) + 5
        /\ (arg = CheckString => SubSeq(sent, 12, 13) = << 49, 195 >>)
        /\ (arg = << 4 >> => sent = << 2, 1, 4, 64, 132, 3 >>)

C2_Witness ==
    /\ op = "write_packet"
    /\ pc = "done"
    /\ rejected = 0
    /\ arg = CheckString
    /\ sent = << 2, 9 >> \o CheckString \o << 49, 195, 3 >>

\* one bit of the payload or of the CRC of the first queued packet was
\* inverted before the first read_packet call
FlippedBody ==
    /\ loopback
    /\ Len(dirty) = 2
    /\ dirty[1] = "flip"
    /\ Len(wlog) = 1
    /\ dirty[2] \in 3 .. Len(wlog[1]) + 4
    /\ op = "read_packet"
    /\ ReadIndex = 1

\* C3: checksum sensitivity.  read_packet on a frame of write_packet with
\* one bit of its payload or CRC bytes inverted returns ChecksumError.
C3_ChecksumSensitivity ==
    /\ (FlippedBody /\ Ended) => (pc = "done" /\ ret = ChecksumError)
    /\ (FlippedBody /\ pc \in ReadPcs) => rx # << >>

C3_Witness ==
    /\ FlippedBody
    /\ pc = "done"
    /\ ret = ChecksumError
    /\ wlog[1] = CheckString
    /\ dirty[2] = 13

\* the bytes taken so far are a short frame for the payload read, up to and
\* including its two CRC bytes, and the reader has nothing more
TruncatedConsumed ==
    /\ op = "read_packet"
    /\ rx = << >>
    /\ Len(got) >= 4
    /\ got[1] = 2
    /\ got[2] = Len(got) - 4
    /\ got = << 2, Len(payload) >> \o payload \o crc(payload)

\* C4: stop-marker truncation.  read_packet given a well-formed frame
\* without its stop byte ends with ParseError.
C4_TruncatedIsParseError ==
    (TruncatedConsumed /\ Ended) => (pc = "done" /\ ret = ParseError)

\* the payload a complete frame g declares, by its start byte
DeclaredLen(g) == IF g[1] = 2 THEN g[2] ELSE g[2] * 256 + g[3]
HeaderLen(g) == IF g[1] = 2 THEN 2 ELSE 3

\* g is a start byte, a length, that many payload bytes, their CRC and one
\* more byte
FramedWithValidCrc(g) ==
    /\ Len(g) >= 5
    /\ g[1] \in {2, 3}
    /\ Len(g) >= HeaderLen(g) + 3
    /\ Len(g) = HeaderLen(g) + DeclaredLen(g) + 3
    /\ LET body == SubSeq(g, HeaderLen(g) + 1, Len(g) - 3)
       IN  SubSeq(g, Len(g) - 2, Len(g) - 1)
               = << Crc16(body) \div 256, Crc16(body) % 256 >>

\* C5: a frame whose start byte, length, payload and CRC are valid and whose
\* last byte is not 0x03 makes read_packet return ParseError, and with it
\* the operation that called it; no payload is handed on.
C5_BadStopIsParseError ==
    (op # "none" /\ FramedWithValidCrc(got) /\ got[Len(got)] # 3) =>
        /\ pc = "done"
        /\ rres = ParseError
        /\ ret = ParseError

C5_Witness ==
    /\ op = "read_packet"
    /\ FramedWithValidCrc(got)
    /\ got[Len(got)] = 255
    /\ Len(got) = 7
    /\ ret = ParseError

\* C6: a first byte other than 0x02 and 0x03 makes read_packet return
\* IoError having taken exactly that byte.
C6_BadStartIsIoError ==
    (got # << >> /\ got[1] \notin {2, 3}) =>
        /\ pc = "done"
        /\ Len(got) = 1
        /\ rres = IoError
        /\ ret = IoError

C6_Witness ==
    /\ op = "read_packet"
    /\ got = << 255 >>
    /\ rx # << >>
    /\ ret = IoError

\* C7: a declared length above the buffer's 128 bytes makes read_packet
\* return IoError or ParseError; it does not abort and never holds more than
\* 128 payload bytes.
C7_OversizeIsError ==
    /\ Len(payload) <= 128
    /\ (Ended /\ payload_len > 128) => (pc = "done" /\ ret \in {IoError, ParseError})

\* C8: a hard transport error during a call makes the call return IoError.
C8_HardErrorIsIoError ==
    (Ended /\ (rejected > 0 \/ dirty = << "readfail" >>)) =>
        (pc = "done" /\ ret = IoError)

\* read_packet handed get_fw_version / get_values a payload whose first byte
\* is not the opcode sent
EchoMismatch ==
    /\ op \in {"get_fw_version", "get_values"}
    /\ rres.tag = "Ok"
    /\ rres.val = payload
    /\ Len(payload) >= 1
    /\ payload[1] # (IF op = "get_fw_version" THEN 0 ELSE 4)

\* C9: opcode echo.  A validly framed response whose first payload byte is
\* not the opcode sent makes get_fw_version and get_values return ParseError.
C9_EchoMismatchIsParseError ==
    (EchoMismatch /\ pc # "decode") => (pc = "done" /\ ret = ParseError)

C9_Witness ==
    /\ EchoMismatch
    /\ op = "get_fw_version"
    /\ payload[1] = 4
    /\ Len(payload) = 58
    /\ ret = ParseError

FaultNames ==
    << "None", "OverVoltage", "UnderVoltage", "Drv", "AbsOverCurrent",
       "OverTempFet", "OverTempMotor" >>

\* C10: Fault::from_u8 gives the seven variants for 0 .. 6 and fails for
\* 7 .. 255, and get_values returns ParseError for a GetValues response whose
\* byte 53 is in 7 .. 255.
C10_FaultDecodeClosure ==
    /\ \A n \in 0 .. 6 : from_u8(n) = Ok(FaultNames[n + 1])
    /\ \A n \in 7 .. 255 : from_u8(n) = ParseError
    /\ (/\ op = "get_values"
        /\ Ended
        /\ rres.tag = "Ok"
        /\ Len(payload) >= 58
        /\ payload[1] = 4
        /\ payload[54] \in 7 .. 255) => (pc = "done" /\ ret = ParseError)

\* read_packet handed get_fw_version a payload that begins with the FwVersion
\* opcode and has 1 to 14 bytes
FwShortResponse ==
    /\ op = "get_fw_version"
    /\ rres.tag = "Ok"
    /\ rres.val = payload
    /\ Len(payload) \in 1 .. 14
    /\ payload[1] = 0

\* C11: get_fw_version rejects short responses.  A validly framed response
\* whose payload begins with opcode 0 and has 1 to 14 bytes makes
\* get_fw_version return ParseError; it does not abort.
C11_ShortFwIsParseError ==
    (FwShortResponse /\ pc # "decode") => (pc = "done" /\ ret = ParseError)

\* read_packet handed get_fw_version a payload that begins with the FwVersion
\* opcode and has at least 15 bytes
FwFullResponse ==
    /\ op = "get_fw_version"
    /\ rres.tag = "Ok"
    /\ rres.val = payload
    /\ Len(payload) >= 15
    /\ payload[1] = 0

\* C12: firmware-version decoding.  A validly framed response with
\* payload[0] = 0 and at least 15 bytes makes get_fw_version return a record
\* with major = payload[1], minor = payload[2], uuid = the last 12 bytes and
\* hw = the bytes from offset 3 followed by zeros; the 26-byte answer
\* 00 03 28 '6' '0' 00*9 uuid gives major 3, minor 40, hw "60.." and that uuid.
C12_FwDecode ==
    (FwFullResponse /\ pc # "decode") =>
        /\ pc = "done"
        /\ ret.tag = "Ok"
        /\ ret.val.major = payload[2]
        /\ ret.val.minor = payload[3]
        /\ ret.val.uuid = SubSeq(payload, Len(payload) - 11, Len(payload))
        /\ ret.val.hw = [i \in 1 .. 10 |->
                            IF i <= Len(payload) - 15 THEN payload[3 + i] ELSE 0]
        /\ (payload = FwScenarioPayload =>
                /\ ret.val.major = 3
                /\ ret.val.minor = 40
                /\ SubSeq(ret.val.hw, 1, 2) = << 54, 48 >>
                /\ ret.val.uuid = [i \in 1 .. 12 |-> 160 + i])

\* C13: no operation aborts.  Once read_packet has handed get_fw_version or
\* get_values a validly framed payload of 0 to 128 bytes, the operation ends
\* by returning a record or one of IoError, ChecksumError, ParseError; it
\* never reaches an abort.
C13_NoAbort ==
    (/\ op \in {"get_fw_version", "get_values"}
     /\ rres.tag = "Ok"
     /\ Len(payload) <= 128) =>
        /\ pc # "panic"
        /\ pc = "done" =>
               (ret.tag = "Ok" \/ ret \in {IoError, ChecksumError, ParseError})

\* a transport attempt reported "not ready" in this step
NotReadyStep == stalls' < stalls

\* C14: blocking via retry.  An attempt that reports "not ready" emits,
\* duplicates, skips and consumes nothing and leaves the operation at the
\* same byte; while no hard error occurred the bytes write_packet emitted and
\* those it still holds are the frame, each once and in order; write_packet
\* leaves its loop only with every byte handed over and read_packet moves on
\* only by taking a byte, so neither gives up; and when the transport is
\* eventually ready for every byte, write_packet completes and read_packet
\* completes unless the stream has no further byte.
C14_BlockingRetry ==
    /\ [][NotReadyStep =>
            UNCHANGED << pc, wq, sent, rejected, rx, got, payload, rres, ret >>]_vars
    /\ []((pc = "write" /\ rejected = 0) => sent \o wq = write_packet_bytes(arg))
    /\ [][(pc = "write" /\ pc' # "write") => wq = << >>]_vars
    /\ [][(pc \in ReadPcs /\ pc' # pc) =>
            (got' = Append(got, Head(rx)) \/ faults' < faults)]_vars
    /\ (pc = "write") ~> (pc # "write")
    /\ (pc \in ReadPcs) ~> (pc \notin ReadPcs \/ rx = << >>)

C14_Witness ==
    /\ op = "write_packet"
    /\ pc = "done"
    /\ stalls < MaxStalls
    /\ todo = << >>
    /\ rejected = 0
    /\ arg = << 4 >>
    /\ sent = << 2, 1, 4, 64, 132, 3 >>

TelemetryResponse ==
    /\ op = "get_values"
    /\ rres.tag = "Ok"
    /\ rres.val = payload
    /\ Len(payload) >= 58
    /\ payload[1] = 4
    /\ payload[54] \in 0 .. 6

\* the big-endian 16-bit integer at payload offset k
U16At(k) == payload[k + 1] * 256 + payload[k + 2]

\* field, offset and scale of the 16-bit and of the 32-bit quantities
ScaledU16 ==
    {<< "temp_fet", 1, 10 >>, << "temp_motor", 3, 10 >>,
     << "duty_cycle", 21, 1000 >>, << "input_voltage", 27, 10 >>}
ScaledU32 ==
    {<< "motor_current", 5, 100 >>, << "input_current", 9, 100 >>,
     << "id", 13, 100 >>, << "iq", 17, 100 >>, << "rpm", 23, 1 >>,
     << "amp_hours", 29, 10000 >>, << "amp_hours_charged", 33, 10000 >>,
     << "watt_hours", 37, 10000 >>, << "watt_hours_charged", 41, 10000 >>,
     << "pid_pos", 54, 1000000 >>}

\* C16: telemetry decoding.  A validly framed response with payload[0] = 4,
\* at least 58 bytes and payload[53] in 0 .. 6 makes get_values return a
\* record whose fields are the big-endian unsigned integers at their fixed
\* offsets over their fixed scales: temp_fet the u16 at bytes 1-2 over 10
\* (00 64 gives 100 / 10), tachometer and tachometer_abs the u32 at bytes
\* 45-48 and 49-52, fault the variant of payload[53] (2 is UnderVoltage),
\* controller_id 0.  A u32 below 2^24 is exact as f32.
C16_Telemetry ==
    (TelemetryResponse /\ pc # "decode") =>
        /\ pc = "done"
        /\ ret.tag = "Ok"
        /\ \A f \in ScaledU16 :
            ret.val[f[1]] = [num |-> [mant |-> U16At(f[2]), exp |-> 0], den |-> f[3]]
        /\ \A f \in ScaledU32 :
            /\ ret.val[f[1]].den = f[3]
            /\ U16At(f[2]) < 256 =>
                 ret.val[f[1]].num =
                     [mant |-> U16At(f[2]) * 65536 + U16At(f[2] + 2), exp |-> 0]
        /\ ret.val.tachometer = [hi |-> U16At(45), lo |-> U16At(47)]
        /\ ret.val.tachometer_abs = [hi |-> U16At(49), lo |-> U16At(51)]
        /\ ret.val.fault = FaultNames[payload[54] + 1]
        /\ ret.val.controller_id = 0
        /\ (SubSeq(payload, 2, 3) = << 0, 100 >> =>
                ret.val.temp_fet = [num |-> [mant |-> 100, exp |-> 0], den |-> 10])
        /\ (payload[54] = 2 => ret.val.fault = "UnderVoltage")

C16_Witness ==
    /\ TelemetryResponse
    /\ pc = "done"
    /\ payload = TelemetryPayload
    /\ ret.tag = "Ok"
    /\ ret.val.temp_fet = [num |-> [mant |-> 100, exp |-> 0], den |-> 10]
    /\ ret.val.motor_current = [num |-> [mant |-> 206925, exp |-> 0], den |-> 100]
    /\ ret.val.fault = "UnderVoltage"
    /\ ret.val.controller_id = 0

\* the operations that write a command and read its answer
Requests == {"get_fw_version", "get_values"}

\* the command frame of a request: payload << 0 >> or << 4 >>
CommandFrame ==
    IF op = "get_fw_version" THEN << 2, 1, 0, 0, 0, 3 >> ELSE << 2, 1, 4, 64, 132, 3 >>

\* C17: transaction ordering.  A get_fw_version (get_values) call takes its
\* first byte from the reader only after every byte of its command frame,
\* the stop byte included, was handed to the writer; the frame is exactly
\* the frame of payload << 0 >> (<< 4 >>) when the writer accepted every
\* byte; nothing is written once a byte was read; after read_packet returned
\* no further byte is read, so at most one frame is taken; and a call starts
\* only when no call is in progress, so two calls never interleave.
C17_TransactionOrdering ==
    /\ [][(op \in Requests /\ Len(got') > Len(got)) =>
            (wq = << >> /\ Len(sent) + rejected = 6)]_vars
    /\ []((op \in Requests /\ pc # "write" /\ rejected = 0) => sent = CommandFrame)
    /\ [][(op \in Requests /\ got # << >>) => (op' = "none" \/ sent' = sent)]_vars
    /\ [][(op \in Requests /\ rres # None /\ op' = op) => rx' = rx]_vars
    /\ []((op \in Requests /\ rres.tag = "Ok") =>
            (FramedWithValidCrc(got) /\ got[Len(got)] = 3))
    /\ [][op' # op => (pc \in {"idle", "done"} /\ (op = "none" \/ op' = "none"))]_vars
    /\ [][(op = "none" /\ op' # "none") =>
            (sent = << >> /\ got = << >> /\ sent' = << >> /\ got' = << >>)]_vars

C17_Witness ==
    /\ op = "get_values"
    /\ pc = "done"
    /\ todo = << >>
    /\ rx = << >>
    /\ sent = << 2, 1, 4, 64, 132, 3 >>
    /\ ret.tag = "Ok"
    /\ ret.val.fault = "Drv"
    /\ Len(payload) = 59

\* the bytes the reader held when the running read_packet call began
StreamAtCall == got \o rx

\* the payload bytes of a complete frame g
Body(g) == SubSeq(g, HeaderLen(g) + 1, Len(g) - 3)

\* the running read_packet call began on a stream that is exactly one
\* well-formed frame, of either format, of at most 128 payload bytes, and no
\* hard transport error occurred
WellFormedInput ==
    /\ op = "read_packet"
    /\ dirty = << >>
    /\ FramedWithValidCrc(StreamAtCall)
    /\ StreamAtCall[Len(StreamAtCall)] = 3
    /\ DeclaredLen(StreamAtCall) <= 128

\* C18: long-frame acceptance.  After a first byte 0x03 read_packet takes the
\* next two bytes as the big-endian payload length and reads exactly that
\* many payload bytes; a well-formed frame of 0 to 128 payload bytes is
\* accepted and yields its payload, in the long format as in the short one.
C18_LongFrameAccepted ==
    /\ (op # "none" /\ Len(got) >= 3 /\ got[1] = 3) =>
            /\ payload_len = got[2] * 256 + got[3]
            /\ Len(payload) <= payload_len
            /\ pc \in {"r_hash_hi", "r_hash_lo", "r_stop"} => Len(payload) = payload_len
    /\ (Ended /\ WellFormedInput) =>
            /\ pc = "done"
            /\ ret = Ok(Body(StreamAtCall))
            /\ rx = << >>

C18_Witness ==
    /\ pc = "done"
    /\ op = "read_packet"
    /\ ret = Ok(Pattern(128))
    /\ got = << 3, 0, 128 >> \o Pattern(128) \o crc(Pattern(128)) \o << 3 >>
    /\ WellFormedInput

\* the running read_packet call began on a stream that starts with a start
\* byte, a length of at most 128, that many payload bytes and two bytes that
\* are not their CRC, followed by at least one more byte
BadCrcFrameAhead ==
    /\ op = "read_packet"
    /\ dirty = << >>
    /\ Len(StreamAtCall) >= 3
    /\ StreamAtCall[1] \in {2, 3}
    /\ DeclaredLen(StreamAtCall) <= 128
    /\ Len(StreamAtCall) >= HeaderLen(StreamAtCall) + DeclaredLen(StreamAtCall) + 3
    /\ LET h == HeaderLen(StreamAtCall)
           n == DeclaredLen(StreamAtCall)
       IN  SubSeq(StreamAtCall, h + n + 1, h + n + 2)
               # crc(SubSeq(StreamAtCall, h + 1, h + n))

\* C19: the CRC is checked before the trailing byte is read.  A frame with a
\* wrong CRC yields ChecksumError whatever its trailing byte is; when
\* ChecksumError is returned exactly the start byte, the length field, the
\* payload and the two CRC bytes were taken and the trailing byte is still
\* unread; the next read_packet call starts at that byte and takes a 0x03
\* there for the start byte of a long frame.
C19_ChecksumBeforeStop ==
    /\ rres = ChecksumError =>
            /\ pc = "done"
            /\ ret = ChecksumError
            /\ Len(payload) = payload_len
            /\ Len(got) = HeaderLen(got) + payload_len + 2
    /\ (Ended /\ BadCrcFrameAhead) =>
            /\ pc = "done"
            /\ ret = ChecksumError
            /\ rx # << >>
            /\ Len(got) = HeaderLen(got) + DeclaredLen(got) + 2
    /\ (op = "read_packet" /\ prev.ret = ChecksumError /\ dirty = << >>) =>
            /\ StreamAtCall = prev.rest
            /\ (got # << >> /\ got[1] = 3) =>
                    /\ pc # "r_len"
                    /\ ret # IoError
                    /\ Len(got) = 1 => pc = "r_len_hi"
                    /\ Len(got) >= 3 => payload_len = got[2] * 256 + got[3]

C19_Witness ==
    /\ op = "read_packet"
    /\ prev.ret = ChecksumError
    /\ prev.rest = << 3 >> \o EmptyFrame
    /\ got = << 3, 2, 0, 0, 0, 3 >>
    /\ pc = "r_payload"
    /\ payload_len = 512
    /\ payload = << 0, 0, 3 >>

\* the frames of the packets written from the k-th on, back to back
RECURSIVE FramesFrom(_)
FramesFrom(k) ==
    IF k > Len(wlog) THEN << >> ELSE ExpectedFrame(wlog[k]) \o FramesFrom(k + 1)

\* C20: exact consumption and statelessness.  A read_packet that returns
\* Ok(p) has taken exactly one frame: the start byte, one or two length
\* bytes, the Len(p) payload bytes, two CRC bytes and the stop byte.  Every
\* read_packet call starts with an empty buffer.  Of packets of up to 127
\* bytes written back to back, each read returns the next one and leaves
\* exactly the frames of the ones after it: two reads give p and then q.
C20_ExactConsumption ==
    /\ (op = "read_packet" /\ pc = "done" /\ ret.tag = "Ok") =>
            /\ FramedWithValidCrc(got)
            /\ got[Len(got)] = 3
            /\ Body(got) = ret.val
            /\ Len(got) = HeaderLen(got) + Len(ret.val) + 3
    /\ pc = "r_start" =>
            (payload = << >> /\ payload_len = 0 /\ read_hash = << >>)
    /\ (pc = "done" /\ CleanRead) =>
            /\ ret = Ok(wlog[rcount])
            /\ rx = FramesFrom(rcount + 1)
            /\ (rcount = 2 /\ Len(wlog[1]) <= 127) => prev.ret = Ok(wlog[1])

C20_Witness ==
    /\ pc = "done"
    /\ CleanRead
    /\ rcount = 2
    /\ wlog = << Pattern(127), Pattern(126) >>
    /\ prev.ret = Ok(Pattern(127))
    /\ prev.rest = ExpectedFrame(Pattern(126))
    /\ ret = Ok(Pattern(126))
    /\ rx = << >>

====
